---- MODULE Spec2Model ----
(***************************************************************************)
(* The to-do list application (class TodoApp) as a state machine.          *)
(*                                                                         *)
(* The task list lives in the DOM: the children of the .task-list element, *)
(* in document order.  Each child carries dataset.id, the text of its      *)
(* .task-content span and the presence of the class 'completed'.  The      *)
(* persistent slot is localStorage['todoList'].                            *)
(*                                                                         *)
(* Strings are sequences of one-character strings, so that trim(),         *)
(* toLowerCase() and .length are computed and not assumed.                 *)
(***************************************************************************)
EXTENDS Integers, Sequences, FiniteSets, TLC

\* ------------------------------------------------------------------ bounds
\* Largest number of items the list is allowed to grow to in the model.
MaxTasks == 3
\* Largest value Date.now() takes in the model (the clock starts at 1).
MaxNow == 2

\* --------------------------------------------------------------- constants
\* TodoApp.CONFIG.MAX_TASK_LENGTH
MAX_TASK_LENGTH == 200

\* ----------------------------------------------------------------- strings
WhiteSpace == {" ", "\t"}

Rep(c, n) == [i \in 1..n |-> c]

RECURSIVE FirstNonWs(_, _)
FirstNonWs(s, i) ==
    IF i > Len(s) THEN 0
    ELSE IF s[i] \notin WhiteSpace THEN i
    ELSE FirstNonWs(s, i + 1)

RECURSIVE LastNonWs(_, _)
LastNonWs(s, i) ==
    IF i < 1 THEN 0
    ELSE IF s[i] \notin WhiteSpace THEN i
    ELSE LastNonWs(s, i - 1)

\* String.prototype.trim
Trim(s) ==
    LET f == FirstNonWs(s, 1)
    IN  IF f = 0 THEN <<>> ELSE SubSeq(s, f, LastNonWs(s, Len(s)))

LowerChar(c) ==
    CASE c = "A" -> "a"
      [] c = "B" -> "b"
      [] c = "X" -> "x"
      [] OTHER   -> c

\* String.prototype.toLowerCase
ToLowerCase(s) == [i \in 1..Len(s) |-> LowerChar(s[i])]

\* ------------------------------------------------------- stored JSON values
\* A property of a stored element: kind "missing" is an absent property,
\* the other kinds are the JSON type of the value that is present.
NoId == [kind |-> "missing", v |-> 0]
StrId(n) == [kind |-> "str", v |-> n]
NumId(n) == [kind |-> "num", v |-> n]
StrText(s) == [kind |-> "str", v |-> s]
NoText == [kind |-> "missing", v |-> <<>>]
BoolFlag(b) == [kind |-> "bool", v |-> b]
NoFlag == [kind |-> "missing", v |-> FALSE]

\* An element of a stored array; obj = FALSE is an element that is not an
\* object (null, a number, a string).
Element(id, text, completed) ==
    [obj |-> TRUE, id |-> id, text |-> text, completed |-> completed]
NonObject == [obj |-> FALSE, id |-> NoId, text |-> NoText, completed |-> NoFlag]

\* The content of localStorage['todoList'].
Absent == [kind |-> "absent", items |-> <<>>]
EmptyString == [kind |-> "empty", items |-> <<>>]
Unparseable == [kind |-> "unparseable", items |-> <<>>]
NonArray == [kind |-> "nonarray", items |-> <<>>]
ArrayValue(items) == [kind |-> "array", items |-> items]

\* ------------------------------------------------------------------- state
VARIABLES
    taskList,       \* children of .task-list, in document order
    localStorage,   \* the value stored under CONFIG.STORAGE_KEY
    emptyDisplay,   \* emptyState.style.display
    clearShow,      \* clearCompletedBtn carries the class 'show'
    now,            \* the value Date.now() returns
    phase,          \* "boot": page loaded, TodoApp not yet constructed
    last,           \* the handler that ran last and what it reported
    held            \* a removed list item a caller still refers to, or NoItem

vars == <<taskList, localStorage, emptyDisplay, clearShow, now, phase, last, held>>

\* No list item is referred to from outside the list.
NoItem == [id |-> 0, text |-> <<>>, completed |-> FALSE]

\* The part of the state the methods of TodoApp read and write, passed
\* through a method and the methods it calls.
App ==
    [taskList |-> taskList, localStorage |-> localStorage,
     emptyDisplay |-> emptyDisplay, clearShow |-> clearShow,
     writes |-> 0, refreshes |-> 0, validTaskCount |-> 0,
     invalidTaskCount |-> 0, alert |-> "none"]

Commit(a) ==
    /\ taskList' = a.taskList
    /\ localStorage' = a.localStorage
    /\ emptyDisplay' = a.emptyDisplay
    /\ clearShow' = a.clearShow

\* What a handler did: idx is the number of items it took out of the list,
\* writes the number of localStorage.setItem calls, refreshes the number of
\* updateEmptyState calls.
Report(op, text, idx, result, a) ==
    [op |-> op, text |-> text, idx |-> idx, result |-> result,
     writes |-> a.writes, refreshes |-> a.refreshes, valid |-> a.validTaskCount,
     invalid |-> a.invalidTaskCount, alert |-> a.alert]

\* ----------------------------------------------------------------- methods
RemoveAt(l, i) == SubSeq(l, 1, i - 1) \o SubSeq(l, i + 1, Len(l))

\* updateClearButton
UpdateClearButton(a) ==
    [a EXCEPT !.clearShow = \E i \in 1..Len(a.taskList) : a.taskList[i].completed]

\* updateEmptyState
UpdateEmptyState(a) ==
    [a EXCEPT !.emptyDisplay = IF Len(a.taskList) > 0 THEN "none" ELSE "block",
              !.refreshes = @ + 1]

\* The array saveTasks builds: one {id, text, completed} per .task-item,
\* in document order; dataset.id is a string.
Serialize(l) ==
    [i \in 1..Len(l) |->
        Element(StrId(l[i].id), StrText(l[i].text), BoolFlag(l[i].completed))]

\* saveTasks
SaveTasks(a) ==
    [a EXCEPT !.localStorage = ArrayValue(Serialize(a.taskList)),
              !.writes = @ + 1]

\* Variant of insertTaskIntoList: every item is appended, whatever its state.
InsertTaskIntoList_Append(l, taskItem, completed) == Append(l, taskItem)

\* Variant of the id of addTask: the stored id is ignored.
DatasetId_AlwaysNow(id, dateNow) == dateNow

\* Variant of insertTaskIntoList: an incomplete item goes right before the
\* first completed item instead of the top of the list.
InsertTaskIntoList_BeforeCompleted(l, taskItem, completed) ==
    IF completed THEN Append(l, taskItem)
    ELSE LET k == Cardinality({i \in 1..Len(l) : ~l[i].completed})
         IN  SubSeq(l, 1, k) \o <<taskItem>> \o SubSeq(l, k + 1, Len(l))

\* insertTaskIntoList
InsertTaskIntoList(l, taskItem, completed) ==
    IF completed THEN Append(l, taskItem) ELSE <<taskItem>> \o l

\* id || Date.now(), then stored in dataset.id (a string; a number n stands
\* for its decimal string)
Truthy(id) == \/ id.kind = "str"
              \/ id.kind = "num" /\ id.v # 0
DatasetId(id, dateNow) == IF Truthy(id) THEN id.v ELSE dateNow

\* Variant of addTask: the text is set as innerHTML, so the characters of a
\* tag do not come back as text.
AddTask_InnerHTML(a, text, completed, id, dateNow) ==
    LET taskItem == [id |-> DatasetId(id, dateNow),
                     text |-> SelectSeq(text, LAMBDA c : c \notin {"<", ">"}),
                     completed |-> completed]
        inserted == [a EXCEPT !.taskList = InsertTaskIntoList(@, taskItem, completed)]
    IN  UpdateClearButton(UpdateEmptyState(SaveTasks(inserted)))

\* addTask(text, completed, id)
AddTask(a, text, completed, id, dateNow) ==
    LET taskItem == [id |-> DatasetId(id, dateNow), text |-> text,
                     completed |-> completed]
        inserted == [a EXCEPT !.taskList = InsertTaskIntoList(@, taskItem, completed)]
    IN  UpdateClearButton(UpdateEmptyState(SaveTasks(inserted)))

\* Variant of deleteTask: the list is saved before the item is removed.
DeleteTask_SaveFirst(a, i) ==
    LET saved == SaveTasks(a)
        removed == [saved EXCEPT !.taskList = RemoveAt(@, i)]
    IN  UpdateClearButton(UpdateEmptyState(removed))

\* Variant of deleteTask: every item that shows the text of the clicked item
\* is removed.
DeleteTask_ByText(a, i) ==
    LET removed == [a EXCEPT !.taskList =
                        SelectSeq(@, LAMBDA t : t.text # a.taskList[i].text)]
    IN  UpdateClearButton(UpdateEmptyState(SaveTasks(removed)))

\* deleteTask(taskItem), taskItem the i-th child of the list
DeleteTask(a, i) ==
    LET removed == [a EXCEPT !.taskList = RemoveAt(@, i)]
    IN  UpdateClearButton(UpdateEmptyState(SaveTasks(removed)))

\* Variant of the move of toggleComplete: the class is flipped and the item
\* stays where it is.
ToggleMove_InPlace(l, i) == [l EXCEPT ![i].completed = ~@]

\* Variant of the move of toggleComplete with the two branches exchanged: a
\* task that becomes completed goes to the top, one that becomes incomplete
\* to the bottom.
ToggleMove_Exchanged(l, i) ==
    IF l[i].completed
    THEN Append(RemoveAt(l, i), [l[i] EXCEPT !.completed = FALSE])
    ELSE <<[l[i] EXCEPT !.completed = TRUE]>> \o RemoveAt(l, i)

\* Variant of the move of toggleComplete: a task that becomes incomplete is
\* left where it is.
ToggleMove_UncompleteInPlace(l, i) ==
    IF l[i].completed
    THEN [l EXCEPT ![i].completed = FALSE]
    ELSE Append(RemoveAt(l, i), [l[i] EXCEPT !.completed = TRUE])

\* The list after toggleComplete moved the i-th child.
ToggleMove(l, i) ==
    IF l[i].completed
    THEN <<[l[i] EXCEPT !.completed = FALSE]>> \o RemoveAt(l, i)
    ELSE Append(RemoveAt(l, i), [l[i] EXCEPT !.completed = TRUE])

\* Variant of toggleComplete: the clear button is not updated.
ToggleComplete_NoClearButton(a, i) ==
    SaveTasks([a EXCEPT !.taskList = ToggleMove(@, i)])

\* toggleComplete(taskElement, toggleButton)
ToggleComplete(a, i) ==
    LET moved == [a EXCEPT !.taskList = ToggleMove(@, i)]
    IN  UpdateClearButton(SaveTasks(moved))

\* Variant of the removal of clearCompletedTasks: only the first completed
\* item is removed.
RemoveCompleted_FirstOnly(l) ==
    IF \E i \in 1..Len(l) : l[i].completed
    THEN RemoveAt(l, CHOOSE i \in 1..Len(l) :
                        l[i].completed /\ \A j \in 1..(i - 1) : ~l[j].completed)
    ELSE l

\* toggleComplete(taskElement, toggleButton) with a taskElement that is not a
\* child of the list: the class is switched, and insertBefore or appendChild
\* puts the element into the list.
ToggleCompleteDetached(a, taskElement) ==
    LET inserted ==
            [a EXCEPT !.taskList =
                IF taskElement.completed
                THEN <<[taskElement EXCEPT !.completed = FALSE]>> \o @
                ELSE Append(@, [taskElement EXCEPT !.completed = TRUE])]
    IN  UpdateClearButton(SaveTasks(inserted))

\* deleteTask(taskItem) with a taskItem that is not a child of the list:
\* remove() does nothing.
DeleteTaskDetached(a) == UpdateClearButton(UpdateEmptyState(SaveTasks(a)))

\* The children left after clearCompletedTasks removed the completed ones.
RemoveCompleted(l) == SelectSeq(l, LAMBDA t : ~t.completed)

\* Variant of clearCompletedTasks: the list is saved and the empty state
\* updated after the removal of each completed item.
RECURSIVE ClearOneByOne(_)
ClearOneByOne(a) ==
    IF \E i \in 1..Len(a.taskList) : a.taskList[i].completed
    THEN ClearOneByOne(UpdateEmptyState(SaveTasks(
            [a EXCEPT !.taskList = RemoveCompleted_FirstOnly(@)])))
    ELSE a

ClearCompletedTasks_SavePerItem(a) ==
    ClearOneByOne([a EXCEPT !.clearShow = FALSE])

\* Variant of clearCompletedTasks: the empty state is not updated.
ClearCompletedTasks_NoEmptyState(a) ==
    SaveTasks([a EXCEPT !.taskList = RemoveCompleted(@), !.clearShow = FALSE])

\* clearCompletedTasks
ClearCompletedTasks(a) ==
    LET removed == [a EXCEPT !.taskList = RemoveCompleted(@), !.clearShow = FALSE]
    IN  UpdateEmptyState(SaveTasks(removed))

\* Variant of isValidTaskData: the text is not looked at.
IsValidTaskData_NoTextCheck(taskData) ==
    /\ taskData.obj
    /\ taskData.completed.kind = "bool"

\* isValidTaskData
IsValidTaskData(taskData) ==
    /\ taskData.obj
    /\ taskData.text.kind = "str"
    /\ Len(Trim(taskData.text.v)) > 0
    /\ taskData.completed.kind = "bool"

\* The for loop of loadTasks, from index i down to 1; clk[i] is what Date.now()
\* returns while element i is handled.
RECURSIVE LoadLoop(_, _, _, _)
LoadLoop(a, tasks, i, clk) ==
    IF i = 0 THEN a
    ELSE LoadLoop(
            IF IsValidTaskData(tasks[i])
            THEN [AddTask(a, tasks[i].text.v, tasks[i].completed.v, tasks[i].id, clk[i])
                    EXCEPT !.validTaskCount = @ + 1]
            ELSE [a EXCEPT !.invalidTaskCount = @ + 1],
            tasks, i - 1, clk)

\* Variant of loadTasks: the catch block reports the corrupt value and leaves
\* it in the slot.
LoadTasks_NoRemove(a, clk) ==
    LET savedTasks == a.localStorage
    IN  IF savedTasks.kind \in {"absent", "empty"}
        THEN UpdateClearButton(a)
        ELSE IF savedTasks.kind \in {"unparseable", "nonarray"}
        THEN UpdateClearButton(UpdateClearButton(UpdateEmptyState(
                [a EXCEPT !.alert = "DATA_CORRUPT"])))
        ELSE UpdateClearButton(
                LoadLoop(a, savedTasks.items, Len(savedTasks.items), clk))

\* Variant of loadTasks: one invalid element makes the whole array corrupt.
LoadTasks_AbortOnInvalid(a, clk) ==
    LET savedTasks == a.localStorage
    IN  IF savedTasks.kind \in {"absent", "empty"}
        THEN UpdateClearButton(a)
        ELSE IF \/ savedTasks.kind \in {"unparseable", "nonarray"}
                \/ \E i \in 1..Len(savedTasks.items) :
                       ~IsValidTaskData(savedTasks.items[i])
        THEN UpdateClearButton(UpdateClearButton(UpdateEmptyState(
                [a EXCEPT !.localStorage = Absent, !.alert = "DATA_CORRUPT"])))
        ELSE UpdateClearButton(
                LoadLoop(a, savedTasks.items, Len(savedTasks.items), clk))

\* Variant of loadTasks: with nothing stored, the empty list is saved.
LoadTasks_SaveWhenAbsent(a, clk) ==
    LET savedTasks == a.localStorage
    IN  IF savedTasks.kind \in {"absent", "empty"}
        THEN UpdateClearButton(SaveTasks(a))
        ELSE IF savedTasks.kind \in {"unparseable", "nonarray"}
        THEN UpdateClearButton(UpdateClearButton(UpdateEmptyState(
                [a EXCEPT !.localStorage = Absent, !.alert = "DATA_CORRUPT"])))
        ELSE UpdateClearButton(
                LoadLoop(a, savedTasks.items, Len(savedTasks.items), clk))

\* loadTasks
LoadTasks(a, clk) ==
    LET savedTasks == a.localStorage
    IN  IF savedTasks.kind \in {"absent", "empty"}
        THEN UpdateClearButton(a)
        ELSE IF savedTasks.kind \in {"unparseable", "nonarray"}
        THEN UpdateClearButton(UpdateClearButton(UpdateEmptyState(
                [a EXCEPT !.localStorage = Absent, !.alert = "DATA_CORRUPT"])))
        ELSE UpdateClearButton(
                LoadLoop(a, savedTasks.items, Len(savedTasks.items), clk))

\* init
InitApp(a, clk) == UpdateEmptyState(LoadTasks(a, clk))

\* ------------------------------------------ the TodoApp of todo-list/js/app.js
\* The earlier TodoApp has no validation in loadTasks.  Its load tells a null
\* element (reading a property of it throws) from a number or string element
\* (reading a property of it gives undefined), and among the values that are
\* not arrays null (reading its length throws), a number, boolean or object
\* (the length is undefined and the loop does not run) and a string of n
\* characters (the loop runs over its characters).
NullElement ==
    [obj |-> FALSE, null |-> TRUE, id |-> NoId, text |-> NoText, completed |-> NoFlag]
Primitive ==
    [obj |-> FALSE, null |-> FALSE, id |-> NoId, text |-> NoText, completed |-> NoFlag]
JsonNull == [kind |-> "null", items |-> <<>>]
JsonScalar == [kind |-> "scalar", items |-> <<>>]
JsonString(n) == [kind |-> "string", items |-> [i \in 1..n |-> Primitive]]

\* What the template literal of addTask makes of taskData.text: the string,
\* or "undefined" for a property that is not there.  The stored texts of
\* this model hold no markup, so innerHTML gives them back as textContent.
LegacyText(text) ==
    IF text.kind = "str" THEN text.v
    ELSE <<"u", "n", "d", "e", "f", "i", "n", "e", "d">>

\* addTask(text, completed, id) of app.js
LegacyAddTask(a, text, completed, id, dateNow) ==
    LET taskItem == [id |-> DatasetId(id, dateNow), text |-> text,
                     completed |-> completed]
        inserted == [a EXCEPT !.taskList =
                        IF completed THEN Append(@, taskItem) ELSE <<taskItem>> \o @]
    IN  UpdateClearButton(UpdateEmptyState(SaveTasks(inserted)))

\* The for loop of loadTasks of app.js, from index i down to 1, inside the
\* try block: a null element throws and the catch block logs the error; what
\* the loop did before stays.  completed is used for its truthiness.
RECURSIVE LegacyLoadLoop(_, _, _, _)
LegacyLoadLoop(a, tasks, i, clk) ==
    IF i = 0 THEN a
    ELSE IF ~tasks[i].obj /\ tasks[i].null
    THEN [a EXCEPT !.alert = "console.error"]
    ELSE LegacyLoadLoop(
            [LegacyAddTask(a, LegacyText(tasks[i].text),
                           tasks[i].completed.kind = "bool" /\ tasks[i].completed.v,
                           tasks[i].id, clk[i])
                EXCEPT !.validTaskCount = @ + 1],
            tasks, i - 1, clk)

\* loadTasks of app.js
LegacyLoadTasks(a, clk) ==
    LET savedTasks == a.localStorage
    IN  IF savedTasks.kind \in {"absent", "empty", "scalar"}
        THEN UpdateClearButton(a)
        ELSE IF savedTasks.kind \in {"unparseable", "null"}
        THEN UpdateClearButton([a EXCEPT !.alert = "console.error"])
        ELSE UpdateClearButton(
                LegacyLoadLoop(a, savedTasks.items, Len(savedTasks.items), clk))

\* init of app.js
LegacyInitApp(a, clk) == UpdateEmptyState(LegacyLoadTasks(a, clk))

\* Variant of the duplicate check: the texts are compared as they are.
TaskExists_CaseSensitive(l, normalizedText) ==
    \E i \in 1..Len(l) : l[i].text = normalizedText /\ ~l[i].completed

\* Variant of the duplicate check: completed items count as well.
TaskExists_AnyStatus(l, normalizedText) ==
    \E i \in 1..Len(l) : ToLowerCase(l[i].text) = ToLowerCase(normalizedText)

\* The duplicate check of handleAdd: some .task-content without the class
\* 'completed' has the same text, ignoring case.
TaskExists(l, normalizedText) ==
    \E i \in 1..Len(l) :
        /\ ToLowerCase(l[i].text) = ToLowerCase(normalizedText)
        /\ ~l[i].completed

\* The length check of handleAdd.
TaskTooLong(taskText) == Len(taskText) > MAX_TASK_LENGTH

\* Variant of the whitespace check: the text is tested without trim().
WhitespaceOnly_NoTrim(taskText) == taskText = <<>>

\* The whitespace check of handleAdd.
WhitespaceOnly(taskText) == Trim(taskText) = <<>>

\* Variant of handleAdd without the duplicate check.
HandleAddOutcome_NoDuplicateCheck(l, taskText) ==
    IF taskText = <<>> THEN "EMPTY_TASK"
    ELSE IF WhitespaceOnly(taskText) THEN "WHITESPACE_ONLY"
    ELSE IF TaskTooLong(taskText) THEN "TASK_TOO_LONG"
    ELSE "TASK_ADDED"

\* What handleAdd decides for the input taskText: the message it alerts, or
\* TASK_ADDED.
HandleAddOutcome(l, taskText) ==
    IF taskText = <<>> THEN "EMPTY_TASK"
    ELSE IF WhitespaceOnly(taskText) THEN "WHITESPACE_ONLY"
    ELSE IF TaskTooLong(taskText) THEN "TASK_TOO_LONG"
    ELSE IF TaskExists(l, Trim(taskText)) THEN "TASK_EXISTS"
    ELSE "TASK_ADDED"

\* ------------------------------------------------------------------ inputs
\* What the user types into the input field.
Inputs ==
    { <<>>, <<" ">>, <<"a">>, <<"A">>, <<" ", "a", "\t">>, <<"b">>,
      Rep("x", MAX_TASK_LENGTH + 1),
      <<" ">> \o Rep("x", MAX_TASK_LENGTH - 1) \o <<" ">> }

\* What the slot may hold when the page is first opened.
InitialStorage ==
    { Absent,
      ArrayValue(<< Element(NoId, StrText(<<"a">>), BoolFlag(FALSE)),
                    Element(NoId, StrText(<<"b">>), BoolFlag(TRUE)) >>),
      ArrayValue(<< Element(StrId(1), StrText(<<"a">>), BoolFlag(FALSE)),
                    Element(StrId(1), StrText(<<"b">>), BoolFlag(FALSE)) >>),
      ArrayValue(<< NonObject,
                    Element(NumId(2), StrText(<<"A">>), BoolFlag(TRUE)) >>),
      EmptyString, Unparseable, NonArray }

\* Further values the slot may hold: written by an older version of the
\* page, edited by hand or damaged.
StoredValues ==
    InitialStorage \cup
    { ArrayValue(<< Element(StrId(1), StrText(<<" ", "a">>), BoolFlag(FALSE)),
                    Element(StrId(2), StrText(Rep("x", MAX_TASK_LENGTH + 1)),
                            BoolFlag(TRUE)) >>),
      ArrayValue(<< Element(StrId(1), StrText(<<"a">>), BoolFlag(FALSE)),
                    Element(StrId(2), NoText, BoolFlag(FALSE)),
                    Element(StrId(2), StrText(<<"b">>), BoolFlag(TRUE)) >>),
      ArrayValue(<< NonObject, Element(StrId(1), StrText(<<"a">>), NoFlag) >>),
      ArrayValue(<< Element(StrId(1), StrText(<<"b">>), BoolFlag(TRUE)),
                    Element(StrId(2), StrText(<<"a">>), BoolFlag(FALSE)) >>),
      ArrayValue(<< Element(StrId(1), StrText(<<"a">>), BoolFlag(TRUE)),
                    Element(StrId(2), StrText(<<"b">>), BoolFlag(FALSE)),
                    Element(StrId(3), StrText(<<"c">>), BoolFlag(TRUE)) >>) }

\* The values Date.now() may return during a load that starts at time t:
\* one per element, never decreasing in the order the loop runs (from the
\* last element to the first).
Clocks(t, n) ==
    { clk \in [1..n -> t..MaxNow] :
        \A i \in 1..n, j \in 1..n : i < j => clk[j] <= clk[i] }

ClockAfter(t, clk, n) == IF n = 0 THEN t ELSE clk[1]

\* ----------------------------------------------------------------- actions
NoReport ==
    [op |-> "none", text |-> <<>>, idx |-> 0, result |-> "none",
     writes |-> 0, refreshes |-> 0, valid |-> 0, invalid |-> 0, alert |-> "none"]

InitWith(S) ==
    /\ taskList = <<>>
    /\ localStorage \in S
    /\ emptyDisplay = "css"
    /\ clearShow = FALSE
    /\ now = 1
    /\ phase = "boot"
    /\ last = NoReport
    /\ held = NoItem

Init == InitWith(InitialStorage)

\* The first session starts with nothing stored.
InitFresh == InitWith({Absent})

\* The first session starts with any of the stored values.
InitStored == InitWith(StoredValues)

\* DOMContentLoaded: new TodoApp(), whose constructor runs init
Construct ==
    /\ phase = "boot"
    /\ LET n == IF localStorage.kind = "array" THEN Len(localStorage.items) ELSE 0
       IN  \E clk \in Clocks(now, n) :
              LET a == InitApp(App, clk)
              IN  /\ Commit(a)
                  /\ now' = ClockAfter(now, clk, n)
                  /\ last' = Report("init", <<>>, 0,
                                    IF a.alert = "none" THEN "loaded" ELSE a.alert, a)
    /\ phase' = "ready"
    /\ UNCHANGED held

\* The page is closed or refreshed: the document is gone, the slot stays.
Unload ==
    /\ phase = "ready"
    /\ taskList' = <<>>
    /\ emptyDisplay' = "css"
    /\ clearShow' = FALSE
    /\ phase' = "boot"
    /\ last' = NoReport
    /\ held' = NoItem
    /\ UNCHANGED <<localStorage, now>>

\* A click on the add button (or Enter) with t typed into the input field.
\* taskInput.value is this input: what the handler leaves in the field is
\* overwritten by what is typed before the next click.
HandleAdd(t) ==
    /\ phase = "ready"
    /\ LET outcome == HandleAddOutcome(taskList, t)
       IN  IF outcome = "TASK_ADDED"
           THEN /\ Len(taskList) < MaxTasks
                /\ LET a == AddTask(App, Trim(t), FALSE, NoId, now)
                   IN  /\ Commit(a)
                       /\ last' = Report("handleAdd", t, 0, outcome, a)
           ELSE /\ last' = Report("handleAdd", t, 0, outcome, App)
                /\ UNCHANGED <<taskList, localStorage, emptyDisplay, clearShow>>
    /\ UNCHANGED <<now, phase, held>>

\* A click on the delete button of the i-th item.
ClickDelete(i) ==
    /\ phase = "ready"
    /\ LET a == DeleteTask(App, i)
       IN  /\ Commit(a)
           /\ last' = Report("deleteTask", <<>>, 1, "deleted", a)
    /\ UNCHANGED <<now, phase, held>>

\* A click on the complete/cancel button of the i-th item.
ClickToggle(i) ==
    /\ phase = "ready"
    /\ LET a == ToggleComplete(App, i)
       IN  /\ Commit(a)
           /\ last' = Report("toggleComplete", <<>>, 0,
                             IF taskList[i].completed THEN "uncompleted" ELSE "completed", a)
    /\ UNCHANGED <<now, phase, held>>

\* A click on the clear-completed button.
ClickClear ==
    /\ phase = "ready"
    /\ LET a == ClearCompletedTasks(App)
       IN  /\ Commit(a)
           /\ last' = Report("clearCompletedTasks", <<>>,
                             Len(taskList) - Len(a.taskList), "cleared", a)
    /\ UNCHANGED <<now, phase, held>>

\* Time passes.
Tick ==
    /\ now < MaxNow
    /\ now' = now + 1
    /\ UNCHANGED <<taskList, localStorage, emptyDisplay, clearShow, phase, last, held>>

Next ==
    \/ Construct
    \/ Unload
    \/ \E t \in Inputs : HandleAdd(t)
    \/ \E i \in 1..Len(taskList) : ClickDelete(i)
    \/ \E i \in 1..Len(taskList) : ClickToggle(i)
    \/ ClickClear
    \/ Tick

Spec == Init /\ [][Next]_vars

SpecFresh == InitFresh /\ [][Next]_vars

\* Sessions in which the stored tasks are loaded, toggled, deleted and
\* cleared, and no task is added.
NextStored ==
    \/ Construct
    \/ Unload
    \/ \E i \in 1..Len(taskList) : ClickDelete(i)
    \/ \E i \in 1..Len(taskList) : ClickToggle(i)
    \/ ClickClear
    \/ Tick

SpecStored == InitStored /\ [][NextStored]_vars

\* What is typed in sessions about text made of markup.
MarkupInputs ==
    { <<"<", "b", ">">>, <<" ", "<", "b", ">", "x", "<", "/", "b", ">">>, <<"a">> }

\* One session in which plain text and markup are added.
NextMarkup ==
    \/ Construct
    \/ \E t \in MarkupInputs : HandleAdd(t)
    \/ \E i \in 1..Len(taskList) : ClickDelete(i)
    \/ \E i \in 1..Len(taskList) : ClickToggle(i)
    \/ ClickClear

SpecMarkup == InitFresh /\ [][NextMarkup]_vars

\* deleteTask on the i-th item, called by code that keeps its reference to
\* the item.
DeleteHeld(i) ==
    /\ phase = "ready"
    /\ LET a == DeleteTask(App, i)
       IN  /\ Commit(a)
           /\ last' = Report("deleteTask", <<>>, 1, "deleted", a)
    /\ held' = taskList[i]
    /\ UNCHANGED <<now, phase>>

\* toggleComplete called on the removed item.
ToggleDetached ==
    /\ phase = "ready"
    /\ held # NoItem
    /\ Len(taskList) < MaxTasks
    /\ LET a == ToggleCompleteDetached(App, held)
       IN  /\ Commit(a)
           /\ last' = Report("toggleComplete", <<>>, 0, "detached", a)
    /\ held' = NoItem
    /\ UNCHANGED <<now, phase>>

\* deleteTask called on the removed item.
DeleteDetached ==
    /\ phase = "ready"
    /\ held # NoItem
    /\ LET a == DeleteTaskDetached(App)
       IN  /\ Commit(a)
           /\ last' = Report("deleteTask", <<>>, 0, "detached", a)
    /\ UNCHANGED <<now, phase, held>>

\* One session in which the methods are also called on an item that was
\* removed from the list.
NextDetached ==
    \/ Construct
    \/ \E t \in Inputs : HandleAdd(t)
    \/ \E i \in 1..Len(taskList) : ClickToggle(i)
    \/ \E i \in 1..Len(taskList) : DeleteHeld(i)
    \/ ToggleDetached
    \/ DeleteDetached

SpecDetached == InitFresh /\ [][NextDetached]_vars

\* What the slot may hold when the page with app.js is opened.
LegacyStoredValues ==
    { Absent, EmptyString, Unparseable, JsonNull, JsonScalar, JsonString(2),
      ArrayValue(<< Element(StrId(1), StrText(<<"a">>), BoolFlag(FALSE)),
                    Element(StrId(1), StrText(<<"b">>), BoolFlag(TRUE)) >>),
      ArrayValue(<< NullElement,
                    Element(StrId(1), StrText(<<"a">>), BoolFlag(FALSE)) >>),
      ArrayValue(<< Element(StrId(1), StrText(<<"a">>), BoolFlag(FALSE)),
                    NullElement >>),
      ArrayValue(<< Element(StrId(1), StrText(<<"a">>), BoolFlag(FALSE)),
                    NullElement,
                    Element(NoId, StrText(<<"b">>), BoolFlag(TRUE)) >>),
      ArrayValue(<< Primitive, Element(NumId(2), NoText, NoFlag) >>) }

InitLegacy == InitWith(LegacyStoredValues)

\* DOMContentLoaded with app.js: new TodoApp(), whose constructor runs init
LegacyConstruct ==
    /\ phase = "boot"
    /\ LET n == Len(localStorage.items)
       IN  \E clk \in Clocks(now, n) :
              LET a == LegacyInitApp(App, clk)
              IN  /\ Commit(a)
                  /\ now' = ClockAfter(now, clk, n)
                  /\ last' = Report("init", <<>>, 0,
                                    IF a.alert = "none" THEN "loaded" ELSE a.alert, a)
    /\ phase' = "ready"
    /\ UNCHANGED held

\* deleteTask, toggleComplete and clearCompletedTasks of app.js have the
\* statements of the methods of the same names modelled above.
LegacyClickDelete(i) == ClickDelete(i)
LegacyClickToggle(i) == ClickToggle(i)
LegacyClickClear == ClickClear

\* Sessions of app.js in which the stored tasks are loaded, toggled, deleted
\* and cleared.
NextLegacy ==
    \/ LegacyConstruct
    \/ Unload
    \/ \E i \in 1..Len(taskList) : LegacyClickDelete(i)
    \/ \E i \in 1..Len(taskList) : LegacyClickToggle(i)
    \/ LegacyClickClear
    \/ Tick

SpecLegacy == InitLegacy /\ [][NextLegacy]_vars

\* ------------------------------------------------------------------ claims
IncompleteFirst(l) ==
    \A i \in 1..Len(l), j \in 1..Len(l) :
        (l[i].completed /\ ~l[j].completed) => j < i

SameIgnoringCase(s, t) == ToLowerCase(s) = ToLowerCase(t)

NoDuplicateIncomplete(l) ==
    \A i \in 1..Len(l), j \in 1..Len(l) :
        (i # j /\ ~l[i].completed /\ ~l[j].completed)
            => ~SameIgnoringCase(l[i].text, l[j].text)

\* The stored value is the array of the records of l, in the order of l.
HoldsRecordsOf(stored, l) ==
    /\ stored.kind = "array"
    /\ Len(stored.items) = Len(l)
    /\ \A i \in 1..Len(l) :
          /\ stored.items[i].obj
          /\ stored.items[i].id = StrId(l[i].id)
          /\ stored.items[i].text = StrText(l[i].text)
          /\ stored.items[i].completed = BoolFlag(l[i].completed)

\* The (id, text, completed) tuples of a stored array written by saveTasks.
StoredTuples(stored) ==
    [i \in 1..Len(stored.items) |->
        [id |-> stored.items[i].id.v, text |-> stored.items[i].text.v,
         completed |-> stored.items[i].completed.v]]

\* Number of items of l that satisfy P.
CountOf(l, P(_)) == Cardinality({i \in 1..Len(l) : P(l[i])})

\* C1: in every state reached from the empty list by adds, toggles, deletes
\* and clear-completed, every incomplete task precedes every completed task.
C1_IncompleteFirst == IncompleteFirst(taskList)

\* C1 witness: a toggle has just completed a task in a list that also holds
\* an incomplete one.
C1_Witness ==
    /\ last.op = "toggleComplete"
    /\ last.result = "completed"
    /\ \E i \in 1..Len(taskList) : ~taskList[i].completed
    /\ \E i \in 1..Len(taskList) : taskList[i].completed

\* C2: round trip. When a fresh TodoApp loads what an earlier session saved,
\* the list it builds has the stored (id, text, completed) tuples in the
\* stored order.
C2_RoundTrip ==
    [][(phase = "boot" /\ phase' = "ready" /\ localStorage.kind = "array")
          => taskList' = StoredTuples(localStorage)]_vars

\* C3 as stated: in every state reached by adds, toggles (completing and
\* uncompleting), deletes and clear-completed, no two incomplete tasks have
\* texts that are equal ignoring case.
C3_NoDuplicateIncomplete == NoDuplicateIncomplete(taskList)

\* C3 amended: an add, a toggle that completes a task, a delete and a
\* clear-completed never create two incomplete tasks whose texts are equal
\* ignoring case; only a toggle that uncompletes a task can.
C3_NoDuplicateUnlessUncomplete ==
    [][(/\ NoDuplicateIncomplete(taskList)
        /\ \/ \E t \in Inputs : HandleAdd(t)
           \/ \E i \in 1..Len(taskList) : ClickDelete(i)
           \/ \E i \in 1..Len(taskList) : ClickToggle(i) /\ ~taskList[i].completed
           \/ ClickClear)
          => NoDuplicateIncomplete(taskList')]_vars

\* C3 witness: an add was refused because an incomplete task has the same
\* text in another case.
C3_Witness ==
    /\ last.op = "handleAdd"
    /\ last.result = "TASK_EXISTS"
    /\ \E i \in 1..Len(taskList) :
          /\ ~taskList[i].completed
          /\ taskList[i].text # Trim(last.text)
          /\ SameIgnoringCase(taskList[i].text, Trim(last.text))

\* C4: no two tasks of the list have the same id.
C4_UniqueIds ==
    \A i \in 1..Len(taskList), j \in 1..Len(taskList) :
        i # j => taskList[i].id # taskList[j].id

\* C5: when a successful handleAdd, a toggleComplete, a deleteTask or a
\* clearCompletedTasks has returned, the slot holds the array of the records
\* of exactly the tasks of the list, in list order.
C5_WriteBack ==
    (\/ last.op = "handleAdd" /\ last.result = "TASK_ADDED"
     \/ last.op \in {"toggleComplete", "deleteTask", "clearCompletedTasks"})
        => HoldsRecordsOf(localStorage, taskList)

\* C5 witness: a delete has returned and left one task of two.
C5_Witness ==
    /\ last.op = "deleteTask"
    /\ Len(taskList) = 1
    /\ HoldsRecordsOf(localStorage, taskList)

\* The step is handleAdd on the input t; what the handler reported is looked
\* at first.
HandleAddStep(t) == last'.op = "handleAdd" /\ last'.text = t /\ HandleAdd(t)

\* C6: a handleAdd whose input trims to the empty string or has more than
\* 200 characters adds nothing: the list and the slot stay as they were.
C6_RejectedAddUnchanged ==
    [][\A t \in Inputs :
          (HandleAddStep(t) /\ (Trim(t) = <<>> \/ Len(t) > MAX_TASK_LENGTH))
             => UNCHANGED <<taskList, localStorage>>]_vars

\* C6 witness: an input of more than 200 characters was refused while the
\* list held a task.
C6_Witness ==
    /\ last.op = "handleAdd"
    /\ Len(last.text) > MAX_TASK_LENGTH
    /\ last.result = "TASK_TOO_LONG"
    /\ Len(taskList) > 0

\* An input that passes the checks on its own content: it does not trim to
\* the empty string and has at most 200 characters.
PassesValidation(t) == Trim(t) # <<>> /\ Len(t) <= MAX_TASK_LENGTH

\* C7: an add whose trimmed text equals, ignoring case, the text of an
\* incomplete task changes neither the list nor the slot; an add of an input
\* that passes validation and whose trimmed text is the text of a completed
\* task and of no incomplete task puts a new incomplete task with that text
\* into the list.
C7_DuplicateRejection ==
    [][\A t \in Inputs :
          HandleAddStep(t) =>
            /\ (\E i \in 1..Len(taskList) :
                    /\ ~taskList[i].completed
                    /\ SameIgnoringCase(taskList[i].text, Trim(t)))
                 => UNCHANGED <<taskList, localStorage>>
            /\ (/\ PassesValidation(t)
                /\ \E i \in 1..Len(taskList) :
                      taskList[i].completed /\ taskList[i].text = Trim(t)
                /\ \A i \in 1..Len(taskList) :
                      ~taskList[i].completed
                         => ~SameIgnoringCase(taskList[i].text, Trim(t)))
                 => /\ Len(taskList') = Len(taskList) + 1
                    /\ CountOf(taskList', LAMBDA x : ~x.completed /\ x.text = Trim(t)) = 1
      ]_vars

\* C7 witness: an add has put an incomplete task in front of a completed
\* task with the same text.
C7_Witness ==
    /\ last.op = "handleAdd"
    /\ last.result = "TASK_ADDED"
    /\ Len(taskList) = 2
    /\ ~taskList[1].completed
    /\ taskList[2].completed
    /\ taskList[1].text = taskList[2].text

\* C8: trim, then validate. Every input whose trimmed text has between 1 and
\* 200 characters and is not the text of an incomplete task is accepted.
C8_TrimThenValidate ==
    (/\ last.op = "handleAdd"
     /\ Len(Trim(last.text)) >= 1
     /\ Len(Trim(last.text)) <= MAX_TASK_LENGTH
     /\ last.result # "TASK_EXISTS")
        => last.result = "TASK_ADDED"

\* C9 as stated: after handleAdd of a valid text t (its trim is not empty
\* and has at most 200 characters), the list holds exactly one task whose
\* text is trim(t).
C9_ExactlyOne ==
    [][\A t \in Inputs :
          (HandleAddStep(t) /\ Trim(t) # <<>> /\ Len(Trim(t)) <= MAX_TASK_LENGTH)
             => CountOf(taskList', LAMBDA x : x.text = Trim(t)) = 1]_vars

\* C9 amended: after a handleAdd that accepted its input t, the list holds
\* exactly one incomplete task whose text equals trim(t), also when case is
\* ignored; completed tasks with that text may be in the list as well.
C9_ExactlyOneIncomplete ==
    [][\A t \in Inputs :
          (HandleAddStep(t) /\ last'.result = "TASK_ADDED")
             => /\ CountOf(taskList', LAMBDA x : ~x.completed /\ x.text = Trim(t)) = 1
                /\ CountOf(taskList',
                       LAMBDA x : ~x.completed /\ SameIgnoringCase(x.text, Trim(t))) = 1
      ]_vars

\* C9 witness: an input with surrounding whitespace was accepted while a
\* completed task with the trimmed text is in the list.
C9_Witness ==
    /\ last.op = "handleAdd"
    /\ last.result = "TASK_ADDED"
    /\ Len(last.text) > Len(Trim(last.text))
    /\ CountOf(taskList, LAMBDA x : x.text = Trim(last.text)) = 2

\* C10: a successful add puts the new incomplete task at index 0, in front of
\* every task of the list.  On the example: after add A and add B the list
\* is [B, A]; completing A gives [B, A(completed)]; clear-completed gives [B].
C10_AddAtHead ==
    [][/\ \A t \in Inputs :
            (HandleAddStep(t) /\ last'.result = "TASK_ADDED")
               => /\ taskList' # <<>>
                  /\ Head(taskList') = [id |-> now, text |-> Trim(t), completed |-> FALSE]
                  /\ Tail(taskList') = taskList
       /\ (/\ Len(taskList) = 2
           /\ ~taskList[1].completed /\ ~taskList[2].completed
           /\ ClickToggle(2))
             => taskList' = <<taskList[1], [taskList[2] EXCEPT !.completed = TRUE]>>
       /\ (/\ Len(taskList) = 2
           /\ ~taskList[1].completed /\ taskList[2].completed
           /\ ClickClear)
             => taskList' = <<taskList[1]>>
      ]_vars

\* C10 witness: A was added, then B, and the list is [B, A].
C10_Witness ==
    /\ last.op = "handleAdd"
    /\ last.result = "TASK_ADDED"
    /\ Len(taskList) = 2
    /\ taskList[1].text = <<"b">> /\ ~taskList[1].completed
    /\ taskList[2].text = <<"a">> /\ ~taskList[2].completed
    /\ Trim(last.text) = <<"b">>

\* Index of the first completed task of l, 0 when there is none.
FirstCompleted(l) ==
    IF \E i \in 1..Len(l) : l[i].completed
    THEN CHOOSE i \in 1..Len(l) :
            l[i].completed /\ \A j \in 1..(i - 1) : ~l[j].completed
    ELSE 0

\* l2 is l with the item x put in at index k.
InsertedAt(l2, l, x, k) ==
    /\ k \in 1..Len(l2)
    /\ l2[k] = x
    /\ SubSeq(l2, 1, k - 1) \o SubSeq(l2, k + 1, Len(l2)) = l

\* C11 as stated: a successful add places the new task immediately before
\* the first completed task (the task after it is the first completed task),
\* or at the very front when no task is completed.
C11_ImmediatelyBeforeFirstCompleted ==
    [][\A t \in Inputs :
          (HandleAddStep(t) /\ last'.result = "TASK_ADDED")
             => \E k \in 1..Len(taskList') :
                   /\ InsertedAt(taskList', taskList,
                                 [id |-> now, text |-> Trim(t), completed |-> FALSE], k)
                   /\ IF FirstCompleted(taskList) = 0
                      THEN k = 1
                      ELSE k + 1 = FirstCompleted(taskList')]_vars

\* C11 amended: a successful add places the new task at the very front, so
\* before the first completed task; it is immediately before the first
\* completed task exactly when no incomplete task was in the list.
C11_FrontBeforeFirstCompleted ==
    [][\A t \in Inputs :
          (HandleAddStep(t) /\ last'.result = "TASK_ADDED")
             => /\ InsertedAt(taskList', taskList,
                              [id |-> now, text |-> Trim(t), completed |-> FALSE], 1)
                /\ FirstCompleted(taskList') # 1
                /\ FirstCompleted(taskList) # 0
                     => (FirstCompleted(taskList') = 2
                           <=> \A i \in 1..Len(taskList) : taskList[i].completed)
      ]_vars

\* C11 witness: a task was added in front of an incomplete task that comes
\* before a completed one.
C11_Witness ==
    /\ last.op = "handleAdd"
    /\ last.result = "TASK_ADDED"
    /\ Len(taskList) = 3
    /\ ~taskList[2].completed
    /\ taskList[3].completed

\* C12: toggleComplete flips the completed flag of the task and moves it: a
\* task that becomes completed is the last element afterwards, a task that
\* becomes incomplete is the first element afterwards.
C12_ToggleRepositions ==
    [][\A i \in 1..Len(taskList) :
          (last'.op = "toggleComplete" /\ ClickToggle(i))
             => /\ Len(taskList') = Len(taskList)
                /\ IF taskList[i].completed
                   THEN taskList'[1] = [taskList[i] EXCEPT !.completed = FALSE]
                   ELSE taskList'[Len(taskList')] = [taskList[i] EXCEPT !.completed = TRUE]
      ]_vars

\* C12 witness: the last of three tasks was uncompleted and is now the first.
C12_Witness ==
    /\ last.op = "toggleComplete"
    /\ last.result = "uncompleted"
    /\ Len(taskList) = 3
    /\ ~taskList[2].completed
    /\ taskList[3].completed

\* Where toggleComplete leaves the item it was called on.
PlaceAfterToggle(l, i) == IF l[i].completed THEN 1 ELSE Len(l)

\* C13: toggling the same task twice restores its completed flag, leaves the
\* id, text and flag of every task and the relative order of the other tasks
\* as they were, and incomplete-first holds after each of the two toggles.
C13_ToggleTwice ==
    phase = "ready" =>
        \A i \in 1..Len(taskList) :
            LET once  == ToggleComplete(App, i).taskList
                p     == PlaceAfterToggle(taskList, i)
                twice == ToggleComplete([App EXCEPT !.taskList = once], p).taskList
                q     == PlaceAfterToggle(once, p)
            IN  /\ once[p] = [taskList[i] EXCEPT !.completed = ~@]
                /\ twice[q] = taskList[i]
                /\ RemoveAt(once, p) = RemoveAt(taskList, i)
                /\ RemoveAt(twice, q) = RemoveAt(taskList, i)
                /\ IncompleteFirst(once)
                /\ IncompleteFirst(twice)

\* C13 witness: a task of a list of three, with both kinds of other tasks,
\* has been completed and uncompleted again.
C13_Witness ==
    /\ last.op = "toggleComplete"
    /\ last.result = "uncompleted"
    /\ Len(taskList) = 3
    /\ ~taskList[1].completed
    /\ ~taskList[2].completed
    /\ taskList[3].completed
    /\ taskList[1].text # taskList[2].text

\* The indices of the incomplete tasks of l.
IncompleteAt(l) == {i \in 1..Len(l) : ~l[i].completed}

\* l2 is exactly the incomplete tasks of l, in the order of l.
IsIncompletePartOf(l2, l) ==
    /\ Len(l2) = Cardinality(IncompleteAt(l))
    /\ \A i \in IncompleteAt(l) :
          l2[Cardinality({j \in IncompleteAt(l) : j <= i})] = l[i]

\* C14: clearCompletedTasks removes all and only the completed tasks: the
\* list afterwards is the incomplete tasks of the list before, in their
\* order, with id and text as before; with no completed task the list is
\* unchanged.
C14_ClearRemovesCompleted ==
    phase = "ready" =>
        LET after == ClearCompletedTasks(App).taskList
        IN  /\ IsIncompletePartOf(after, taskList)
            /\ (\A i \in 1..Len(taskList) : ~taskList[i].completed)
                  => after = taskList

\* C14 witness: a clear removed a completed task and left an incomplete one.
C14_Witness ==
    /\ last.op = "clearCompletedTasks"
    /\ last.idx >= 1
    /\ Len(taskList) >= 1
    /\ IsIncompletePartOf(taskList, taskList)

\* C15: a clearCompletedTasks that removes k >= 1 tasks writes the slot
\* exactly once and updates the empty state exactly once, and what it wrote
\* is the list after all k removals.
C15_ClearIsOneBatch ==
    (last.op = "clearCompletedTasks" /\ last.idx >= 1)
        => /\ last.writes = 1
           /\ last.refreshes = 1
           /\ HoldsRecordsOf(localStorage, taskList)
           /\ IncompleteAt(taskList) = 1..Len(taskList)

\* C15 witness: one clear removed two completed tasks.
C15_Witness ==
    /\ last.op = "clearCompletedTasks"
    /\ last.idx >= 2
    /\ last.writes = 1

\* C16: deleteTask removes exactly the clicked task: the list afterwards is
\* the list before without it, the other tasks keep id, text, flag and order,
\* and the slot holds the new list.
C16_DeleteRemovesTarget ==
    phase = "ready" =>
        \A i \in 1..Len(taskList) :
            LET a == DeleteTask(App, i)
            IN  /\ Len(a.taskList) = Len(taskList) - 1
                /\ \A j \in 1..(i - 1) : a.taskList[j] = taskList[j]
                /\ \A j \in i..(Len(taskList) - 1) : a.taskList[j] = taskList[j + 1]
                /\ HoldsRecordsOf(a.localStorage, a.taskList)

\* C16 witness: one of three tasks was deleted and the two others are left.
C16_Witness ==
    /\ last.op = "deleteTask"
    /\ Len(taskList) = 2
    /\ HoldsRecordsOf(localStorage, taskList)

\* The ids of the tasks of l, in the order of l.
Ids(l) == [i \in 1..Len(l) |-> l[i].id]

\* The same items, each as many times, in l1 and in l2.
SameItems(l1, l2) ==
    /\ Len(l1) = Len(l2)
    /\ \A i \in 1..Len(l1) :
          Cardinality({j \in 1..Len(l1) : l1[j] = l1[i]})
            = Cardinality({j \in 1..Len(l2) : l2[j] = l1[i]})

\* The application of a new session over the slot of a.
NewSession(a) ==
    [a EXCEPT !.taskList = <<>>, !.emptyDisplay = "css", !.clearShow = FALSE]

\* C17: an id is never reassigned: toggleComplete, deleteTask and
\* clearCompletedTasks leave the id of every remaining task as it was, and
\* the tasks loaded by a new session from what saveTasks wrote have the ids
\* (with the texts and flags) they were saved with.
C17_IdsStable ==
    phase = "ready" =>
        /\ \A i \in 1..Len(taskList) :
              /\ RemoveAt(Ids(ToggleComplete(App, i).taskList),
                          PlaceAfterToggle(taskList, i))
                    = RemoveAt(Ids(taskList), i)
              /\ ToggleComplete(App, i).taskList[PlaceAfterToggle(taskList, i)].id
                    = taskList[i].id
              /\ Ids(DeleteTask(App, i).taskList) = RemoveAt(Ids(taskList), i)
        /\ Ids(ClearCompletedTasks(App).taskList)
              = Ids(SelectSeq(taskList, LAMBDA t : ~t.completed))
        /\ \A clk \in Clocks(now, Len(taskList)) :
              SameItems(InitApp(NewSession(SaveTasks(App)), clk).taskList, taskList)

\* C17 witness: a session has loaded two tasks whose ids were assigned at
\* different times, one of them before the time of the load.
C17_Witness ==
    /\ last.op = "init"
    /\ last.valid = 2
    /\ Len(taskList) = 2
    /\ taskList[1].id # taskList[2].id
    /\ \E i \in 1..2 : taskList[i].id < now

\* The text is non-empty, has no leading or trailing whitespace and is at
\* most MAX_TASK_LENGTH characters long.
WellFormedText(s) ==
    /\ s # <<>>
    /\ s[1] \notin WhiteSpace
    /\ s[Len(s)] \notin WhiteSpace
    /\ Len(s) <= MAX_TASK_LENGTH

\* C18: in every reachable state, also after the load of any stored array,
\* the text of every task is non-empty, equal to its trim and at most 200
\* characters long.
C18_TextWellFormed ==
    \A i \in 1..Len(taskList) : WellFormedText(taskList[i].text)

\* C19 as stated: a load of a value that is not parseable as JSON, or is
\* JSON but not an array, leaves the list empty and removes the value.
C19_CorruptValueRemoved ==
    [][(Construct /\ localStorage.kind \in {"empty", "unparseable", "nonarray"})
          => (taskList' = <<>> /\ localStorage' = Absent)]_vars

\* C19 amended: a load of a non-empty value that is not parseable as JSON, or
\* is JSON but not an array, leaves the list empty, removes the value and
\* reports it; a load of the empty string, which is not parseable either,
\* leaves the list empty and the empty string in the slot, without a report.
C19_NonEmptyCorruptValueRemoved ==
    [][Construct =>
          /\ localStorage.kind \in {"unparseable", "nonarray"}
                => /\ taskList' = <<>>
                   /\ localStorage' = Absent
                   /\ last'.alert = "DATA_CORRUPT"
          /\ localStorage.kind = "empty"
                => /\ taskList' = <<>>
                   /\ localStorage' = localStorage
                   /\ last'.alert = "none"]_vars

\* C19 witness: a load has reported a corrupt value and the slot is empty.
C19_Witness ==
    /\ last.op = "init"
    /\ last.alert = "DATA_CORRUPT"
    /\ taskList = <<>>
    /\ localStorage = Absent

\* The element is an object with a string id, a string text and a boolean
\* completed.
WellTyped(e) ==
    /\ e.obj
    /\ e.id.kind = "str"
    /\ e.text.kind = "str"
    /\ e.completed.kind = "bool"

\* The element is an object with a text that is a string with a
\* non-whitespace character and a boolean completed; the id is not looked at.
Loadable(e) ==
    /\ e.obj
    /\ e.text.kind = "str"
    /\ \E k \in 1..Len(e.text.v) : e.text.v[k] \notin WhiteSpace
    /\ e.completed.kind = "bool"

\* The (text, completed) pairs of the loadable elements of a stored array.
LoadablePairs(items) ==
    LET ok == SelectSeq(items, Loadable)
    IN  [i \in 1..Len(ok) |-> [text |-> ok[i].text.v, completed |-> ok[i].completed.v]]

\* The (text, completed) pairs of the tasks of l.
Pairs(l) == [i \in 1..Len(l) |-> [text |-> l[i].text, completed |-> l[i].completed]]

\* C20 as stated: a load of an array with an element that is not an object
\* or misses or mistypes id, text or completed discards the whole value: the
\* list is empty and the slot is cleared.
C20_WholePayloadDiscarded ==
    [][(/\ Construct
        /\ localStorage.kind = "array"
        /\ \E i \in 1..Len(localStorage.items) : ~WellTyped(localStorage.items[i]))
          => (taskList' = <<>> /\ localStorage' = Absent)]_vars

\* C20 amended: a load of an array never discards the whole value: the
\* elements that are not an object, or whose text is not a string with a
\* non-whitespace character, or whose completed is not a boolean, are skipped
\* and counted, every other element is loaded whatever its id is, and the
\* slot is not cleared: it holds the records of the loaded tasks, or is left
\* as it was when no element was loaded.
C20_InvalidElementsSkipped ==
    [][(Construct /\ localStorage.kind = "array")
          => LET items == localStorage.items
             IN  /\ SameItems(Pairs(taskList'), LoadablePairs(items))
                 /\ last'.valid = Len(LoadablePairs(items))
                 /\ last'.invalid = Len(items) - Len(LoadablePairs(items))
                 /\ last'.alert = "none"
                 /\ IF Len(LoadablePairs(items)) > 0
                    THEN HoldsRecordsOf(localStorage', taskList')
                    ELSE localStorage' = localStorage]_vars

\* C20 witness: a load has skipped an element and loaded another, and the
\* slot holds the loaded task.
C20_Witness ==
    /\ last.op = "init"
    /\ last.invalid >= 1
    /\ last.valid >= 1
    /\ Len(taskList) = last.valid
    /\ HoldsRecordsOf(localStorage, taskList)

\* C21: for a stored array the tasks of the list after the load are exactly
\* the elements with a string text whose trim is not empty and a boolean
\* completed; every other element is skipped and the load goes on; loaded
\* plus skipped is the length of the array.
C21_PerElementSkipping ==
    [][(localStorage.kind = "array" /\ Construct)
          => LET items == localStorage.items
             IN  /\ Len(taskList') = Len(SelectSeq(items, Loadable))
                 /\ SameItems(LoadablePairs(items), Pairs(taskList'))
                 /\ last'.valid = Len(taskList')
                 /\ last'.valid + last'.invalid = Len(items)
                 /\ last'.result = "loaded"]_vars

\* C21 witness: of three stored elements the one without a text was skipped
\* and the two others were loaded.
C21_Witness ==
    /\ last.op = "init"
    /\ last.valid = 2
    /\ last.invalid = 1
    /\ Len(taskList) = 2
    /\ taskList[1].text = <<"a">>
    /\ taskList[2].text = <<"b">>

\* Every element of the stored array is an object with a string id, a string
\* text with a non-whitespace character and a boolean completed.
StructurallyValid(stored) ==
    /\ stored.kind = "array"
    /\ \A i \in 1..Len(stored.items) :
          WellTyped(stored.items[i]) /\ Loadable(stored.items[i])

\* C22: the load of a structurally valid array reconstructs the list in
\* exactly the stored order, without a re-sort, also when a completed record
\* is stored before an incomplete one.
C22_StoredOrderKept ==
    [][(StructurallyValid(localStorage) /\ Construct)
          => taskList' = StoredTuples(localStorage)]_vars

\* C23: with nothing stored under the key, the load reports no error, the
\* list is empty after init, and the slot is still absent: the load wrote
\* nothing.
C23_AbsentSlot ==
    [][(localStorage = Absent /\ Construct)
          => /\ taskList' = <<>>
             /\ localStorage' = Absent
             /\ last'.alert = "none"
             /\ last'.writes = 0
             /\ last'.invalid = 0]_vars

\* C23 witness: init has finished without a report, nothing is stored and
\* the list is empty.
C23_Witness ==
    /\ phase = "ready"
    /\ last.op = "init"
    /\ last.result = "loaded"
    /\ last.writes = 0
    /\ taskList = <<>>
    /\ localStorage = Absent

\* C24: toggleComplete or deleteTask on a task that is not in the list (one
\* that was deleted) leaves the tasks, their flags and order, and the content
\* of the slot as they were.
C24_NotFoundLeavesState ==
    [][(ToggleDetached \/ DeleteDetached)
          => (taskList' = taskList /\ localStorage' = localStorage)]_vars

\* C25: the text is an opaque string: for every accepted text, also one made
\* of markup, addTask creates exactly one item, the text saved for it is the
\* given text character for character, and the other tasks and their records
\* are what they were.
C25_TextOpaque ==
    [][\A t \in MarkupInputs :
          (HandleAddStep(t) /\ last'.result = "TASK_ADDED")
             => /\ Len(taskList') = Len(taskList) + 1
                /\ localStorage'.kind = "array"
                /\ Len(localStorage'.items) = Len(taskList')
                /\ \E k \in 1..Len(taskList') :
                      /\ taskList'[k].text = Trim(t)
                      /\ localStorage'.items[k].text = StrText(Trim(t))
                      /\ RemoveAt(taskList', k) = taskList
                      /\ HoldsRecordsOf(ArrayValue(RemoveAt(localStorage'.items, k)),
                                        taskList)
      ]_vars

\* C25 witness: a text that is a tag was added to a list with another task
\* and is in the list and in the slot as it was typed.
C25_Witness ==
    /\ last.op = "handleAdd"
    /\ last.result = "TASK_ADDED"
    /\ last.text = <<"<", "b", ">">>
    /\ Len(taskList) >= 2
    /\ taskList[1].text = <<"<", "b", ">">>
    /\ localStorage.kind = "array"
    /\ localStorage.items[1].text = StrText(<<"<", "b", ">">>)

\* C26: once init has finished and after every add, toggle, delete and
\* clear, the empty-state hint is displayed exactly when the list holds no
\* task.
C26_EmptyStateConsistent ==
    phase = "ready" =>
        /\ emptyDisplay \in {"block", "none"}
        /\ emptyDisplay = "block" <=> Len(taskList) = 0

\* C26 witness: a clear has removed the only tasks of the list and the hint
\* is displayed.
C26_Witness ==
    /\ last.op = "clearCompletedTasks"
    /\ last.idx >= 1
    /\ taskList = <<>>
    /\ emptyDisplay = "block"

\* The tasks a load has put into the list when the loop has handled the
\* elements from the last one down to the j-th.
DuringLoad(stored, j, clk) ==
    LET n == Len(stored.items)
    IN  LoadLoop(App, SubSeq(stored.items, j, n), n - j + 1, SubSeq(clk, j, n)).taskList

\* C27: the load keeps incomplete-first by itself: for any stored array, in
\* whatever order its records are, every incomplete task of the list precedes
\* every completed one after each element the load has handled and when init
\* has finished.
C27_LoadKeepsIncompleteFirst ==
    /\ (phase = "boot" /\ localStorage.kind = "array")
          => \A clk \in Clocks(now, Len(localStorage.items)) :
                /\ \A j \in 1..(Len(localStorage.items) + 1) :
                      IncompleteFirst(DuringLoad(localStorage, j, clk))
                /\ IncompleteFirst(InitApp(App, clk).taskList)
    /\ (phase = "ready" /\ last.op = "init") => IncompleteFirst(taskList)

\* C27 witness: the array [a done, b, c done] has been loaded as
\* [b, c done, a done].
C27_Witness ==
    /\ last.op = "init"
    /\ last.valid = 3
    /\ Len(taskList) = 3
    /\ taskList[1] = [id |-> 2, text |-> <<"b">>, completed |-> FALSE]
    /\ taskList[2] = [id |-> 3, text |-> <<"c">>, completed |-> TRUE]
    /\ taskList[3] = [id |-> 1, text |-> <<"a">>, completed |-> TRUE]

\* C28: once init has finished and after every later operation, whatever the
\* slot held at the start, the slot is absent or holds exactly the records
\* of the list.
C28_StorageAgreesWithList ==
    phase = "ready" =>
        \/ localStorage = Absent
        \/ HoldsRecordsOf(localStorage, taskList)

\* The incomplete tasks of l, in the order of l.
IncompleteOf(l) == SelectSeq(l, LAMBDA t : ~t.completed)

\* C29: the list saved, loaded by a new session and loaded again by a second
\* new session (each load saves what it loaded) has the same (id, text,
\* completed) tuples in the same order as the saved list, and the slot holds
\* them; after the first of the two loads the incomplete tasks are in the
\* order they were saved in.
C29_ReloadTwice ==
    phase = "ready" =>
        \A clk \in Clocks(now, Len(taskList)) :
            LET n     == Len(taskList)
                once  == InitApp(NewSession(SaveTasks(App)), clk)
                twice == InitApp(NewSession(once),
                                 [i \in 1..n |-> ClockAfter(now, clk, n)])
            IN  /\ twice.taskList = taskList
                /\ HoldsRecordsOf(twice.localStorage, taskList)
                /\ IncompleteOf(once.taskList) = IncompleteOf(taskList)
                /\ SameItems(once.taskList, taskList)

\* C29 witness: a session has loaded an incomplete task and two completed
\* tasks with different texts.
C29_Witness ==
    /\ last.op = "init"
    /\ last.valid = 3
    /\ Len(taskList) = 3
    /\ ~taskList[1].completed
    /\ taskList[2].completed
    /\ taskList[3].completed
    /\ taskList[2].text # taskList[3].text

\* C30: once init has finished and after every add, toggle, delete and
\* clear, the clear-completed button has the class 'show' exactly when the
\* list holds a completed task.
C30_ClearButtonConsistent ==
    phase = "ready" =>
        (clearShow <=> \E i \in 1..Len(taskList) : taskList[i].completed)

\* C30 witness: the only completed task was uncompleted and the button is
\* hidden again.
C30_Witness ==
    /\ last.op = "toggleComplete"
    /\ last.result = "uncompleted"
    /\ Len(taskList) >= 2
    /\ ~clearShow

\* C31: the load of app.js is all-or-nothing under errors: init always
\* finishes, and when the load has caught an error no task taken from the
\* stored value is in the list and the load has not rewritten the slot.
C31_LegacyLoadAllOrNothing ==
    [][LegacyConstruct
          => /\ phase' = "ready"
             /\ last'.alert = "console.error"
                   => (taskList' = <<>> /\ localStorage' = localStorage)]_vars

====
